---- MODULE Spec2Model ----
(***************************************************************************)
(* Model of the linear-programming solver pipeline: SimplexSolver,         *)
(* GraphicalSolver and SensitivityAnalyzer, driven as LinearProgrammingApp *)
(* .handleSolve drives them.                                               *)
(*                                                                         *)
(* Numbers.  The program computes with IEEE doubles; the model computes    *)
(* with exact rationals <<n, d>> (d > 0, lowest terms) plus the two        *)
(* infinities <<1, 0>> and <<-1, 0>>.  Signed zero is not distinguished    *)
(* (no comparison of the program tells -0 from 0).  A number no larger     *)
(* than the tolerance 1e-10 in magnitude is written <<n, d, 1>>, n/d times *)
(* 1e-10 with 0 < |n| <= d: such numbers are stored, negated and compared, *)
(* and the arithmetic of the model is never applied to them.  Indices are  *)
(* 0-based as in the source; a TLA+ sequence element k of the source is    *)
(* read at position k + 1.                                                 *)
(***************************************************************************)
EXTENDS Integers, Sequences, FiniteSets, TLC

VARIABLES
    problem,        \* the Problem handed to the solvers
    pc,             \* position in handleSolve / SimplexSolver.solve
    tableau,        \* solve: local `tableau`
    tableaus,       \* solve: local `tableaus`
    steps,          \* solve: local `steps`
    iteration,      \* solve: local `iteration`
    standardForm,   \* solve: local `standardForm`
    solution,       \* the SimplexSolution returned by solve
    prevSolution,   \* the SimplexSolution of the previous run on this Problem
    graphical,      \* the GraphicalSolution returned by GraphicalSolver.solve
    sensitivity,    \* the SensitivityAnalysis returned by analyze
    prevSensitivity,\* the SensitivityAnalysis of the previous analyze call
    rerun           \* TRUE once the Problem is being solved a second time

vars == <<problem, pc, tableau, tableaus, steps, iteration, standardForm,
          solution, prevSolution, graphical, sensitivity, prevSensitivity,
          rerun>>

Null == "null"          \* null / undefined, where a name or a record is expected
NoPivot == -1           \* pivotRow / pivotCol of a tableau that has none
NoPoint == [x |-> <<0, 0>>, y |-> <<0, 0>>]     \* a null Point
Unset == [unset |-> TRUE]       \* a local or a result that holds no object yet

(***************************************************************************)
(* Bounds of the model.                                                    *)
(***************************************************************************)
MaxConstraints == 2     \* longest constraint list drawn in Init
RandomStates == 3       \* number of states of the Math.random generator

(***************************************************************************)
(* Exact rationals standing for the program's numbers.                     *)
(***************************************************************************)
RECURSIVE GCD(_, _)
GCD(a, b) == IF b = 0 THEN a ELSE GCD(b, a % b)

Abs(n) == IF n < 0 THEN -n ELSE n

Norm(n, d) ==
    IF d = 0 THEN <<(IF n > 0 THEN 1 ELSE -1), 0>>
    ELSE LET g == GCD(Abs(n), Abs(d))
             s == IF d < 0 THEN -1 ELSE 1
         IN  <<s * (n \div g), s * (d \div g)>>

R(n) == <<n, 1>>
Zero == <<0, 1>>
One == <<1, 1>>
PosInf == <<1, 0>>      \* Number.POSITIVE_INFINITY
NegInf == <<-1, 0>>     \* Number.NEGATIVE_INFINITY

IsFinite(x) == x[2] # 0
RAdd(x, y) == Norm(x[1] * y[2] + y[1] * x[2], x[2] * y[2])
RNeg(x) == [x EXCEPT ![1] = -x[1]]
RSub(x, y) == RAdd(x, RNeg(y))
RMul(x, y) == Norm(x[1] * y[1], x[2] * y[2])
RDiv(x, y) == Norm(x[1] * y[2], x[2] * y[1])
\* x < y.  An ordinary number other than 0 is at least 2^-31 in magnitude,
\* further from 0 than any number written in units of 1e-10.
RLt(x, y) ==
    IF Len(x) = Len(y) THEN x[1] * y[2] < y[1] * x[2]
    ELSE IF Len(x) = 3 THEN (IF y[1] = 0 THEN x[1] < 0 ELSE y[1] > 0)
    ELSE (IF x[1] = 0 THEN y[1] > 0 ELSE x[1] < 0)
RLe(x, y) == ~ RLt(y, x)
RAbs(x) == [x EXCEPT ![1] = Abs(x[1])]          \* Math.abs
RMax(x, y) == IF RLt(x, y) THEN y ELSE x        \* Math.max
RMin(x, y) == IF RLt(y, x) THEN y ELSE x        \* Math.min

\* Comparisons against a tolerance 1/T with T = f1 * f2 (1e-10, 1e-6),
\* computed without leaving TLC's 32-bit integers:
\*   n/d >  1/T  <=>  n > 0 /\ floor(d / n) < T
\*   n/d >= 1/T  <=>  n > 0 /\ floor((d - 1) / n) < T
\*   q < f1 * f2 <=>  floor(q / f1) < f2
\* and for a number written in units of 1e-10, with f1 and f2 powers of ten
\* up to 1e5:
\*   (n/d) * 1e-10 > 1/T  <=>  n > d * (1e5 / f1) * (1e5 / f2)
Pow10_5 == 100000       \* 1e-10 = 1 / (Pow10_5 * Pow10_5)
Pow10_3 == 1000         \* 1e-6  = 1 / (Pow10_3 * Pow10_3)

GtTol(x, f1, f2) ==
    IF Len(x) = 3 THEN x[1] > x[2] * ((Pow10_5 \div f1) * (Pow10_5 \div f2))
    ELSE IF x[2] = 0 THEN x[1] > 0
    ELSE x[1] > 0 /\ ((x[2] \div x[1]) \div f1) < f2
GeTol(x, f1, f2) ==
    IF Len(x) = 3 THEN x[1] >= x[2] * ((Pow10_5 \div f1) * (Pow10_5 \div f2))
    ELSE IF x[2] = 0 THEN x[1] > 0
    ELSE x[1] > 0 /\ (((x[2] - 1) \div x[1]) \div f1) < f2

Gt1e10(x) == GtTol(x, Pow10_5, Pow10_5)                 \* x > 1e-10
LtNeg1e10(x) == GtTol(RNeg(x), Pow10_5, Pow10_5)        \* x < -1e-10
AbsLt1e10(x) == ~ GeTol(RAbs(x), Pow10_5, Pow10_5)      \* Math.abs(x) < 1e-10
AbsGt1e10(x) == GtTol(RAbs(x), Pow10_5, Pow10_5)        \* Math.abs(x) > 1e-10
AbsLt1e6(x) == ~ GeTol(RAbs(x), Pow10_3, Pow10_3)       \* Math.abs(x) < 1e-6

(***************************************************************************)
(* Small sequence helpers.                                                 *)
(***************************************************************************)
Includes(seq, x) == \E k \in 1..Len(seq) : seq[k] = x       \* Array.includes

\* Array.indexOf, 0-based, -1 when absent
IndexOf(seq, x) ==
    IF Includes(seq, x)
    THEN (CHOOSE k \in 1..Len(seq) :
              seq[k] = x /\ \A m \in 1..(k - 1) : seq[m] # x) - 1
    ELSE -1

\* Array.splice(index, 1) with a 0-based index
Splice1(seq, index) ==
    [k \in 1..(Len(seq) - 1) |-> IF k <= index THEN seq[k] ELSE seq[k + 1]]

\* the decimal text of a small positive integer, as a template string prints it
NumStr(n) ==
    <<"1", "2", "3", "4", "5", "6", "7", "8", "9", "10", "11", "12", "13", "14",
      "15", "16", "17", "18", "19", "20", "21", "22", "23", "24", "25", "26",
      "27", "28", "29", "30", "31", "32">>[n]

(***************************************************************************)
(* SimplexSolver.convertToStandardForm                                     *)
(***************************************************************************)
\* number of constraints among the first k whose operator is in ops
CountOps(constraints, k, ops) ==
    Cardinality({m \in 1..k : constraints[m].operator \in ops})

\* the standard constraint of constraint i (1-based): the counters
\* slackVarCount, surplusVarCount and artificialVarCount are pre-incremented,
\* one per kind, in constraint order; slack and surplus share the prefix "s"
StandardConstraint(constraints, i) ==
    LET c == constraints[i]
    IN  [coefficients |-> c.coefficients,
         rhs |-> c.rhs,
         slackVar |->
             IF c.operator = "<=" THEN "s" \o NumStr(CountOps(constraints, i, {"<="}))
             ELSE Null,
         surplusVar |->
             IF c.operator = ">=" THEN "s" \o NumStr(CountOps(constraints, i, {">="}))
             ELSE Null,
         artificialVar |->
             IF c.operator \in {">=", "="}
             THEN "a" \o NumStr(CountOps(constraints, i, {">=", "="}))
             ELSE Null]

convertToStandardForm(p) ==
    [type |-> p.type,
     originalType |-> p.type,
     objectiveCoefficients |->
         IF p.type = "minimize"
         THEN [j \in 1..Len(p.objective.coefficients) |->
                   RNeg(p.objective.coefficients[j])]
         ELSE p.objective.coefficients,
     variables |-> p.variables,
     constraints |->
         [i \in 1..Len(p.constraints) |-> StandardConstraint(p.constraints, i)],
     slackVarCount |-> CountOps(p.constraints, Len(p.constraints), {"<="}),
     surplusVarCount |-> CountOps(p.constraints, Len(p.constraints), {">="}),
     artificialVarCount |->
         CountOps(p.constraints, Len(p.constraints), {">=", "="})]

(***************************************************************************)
(* SimplexSolver.checkOptimality, initializeTableau                        *)
(***************************************************************************)
\* coefficients[j] || 0 with a 0-based j: a missing entry reads as 0
CoefOrZero(coefficients, j) ==
    IF j + 1 <= Len(coefficients) THEN coefficients[j + 1] ELSE Zero

\* checkOptimality with the tolerance -1 in place of -1e-10
checkOptimality_LooseTolerance(objectiveRow) ==
    \A j \in 1..(Len(objectiveRow) - 1) : ~ RLt(objectiveRow[j], RNeg(One))

checkOptimality(objectiveRow) ==
    \A j \in 1..(Len(objectiveRow) - 1) : ~ LtNeg1e10(objectiveRow[j])

\* how many tableau columns a standard constraint adds
ColumnsOf(sc) ==
    (IF sc.slackVar # Null THEN 1 ELSE 0)
    + (IF sc.surplusVar # Null THEN 1 ELSE 0)
    + (IF sc.artificialVar # Null THEN 1 ELSE 0)

\* varIndex (0-based) before the columns of constraint k (1-based) are laid out
RECURSIVE FirstColumnOf(_, _)
FirstColumnOf(sf, k) ==
    IF k = 1 THEN Len(sf.variables)
    ELSE FirstColumnOf(sf, k - 1) + ColumnsOf(sf.constraints[k - 1])

\* the entry of constraint row i (1-based) at 0-based column col
ConstraintRowEntry(sf, i, col, totalVars) ==
    LET sc == sf.constraints[i]
        numVars == Len(sf.variables)
        first == FirstColumnOf(sf, i)
        slackCol == IF sc.slackVar # Null THEN first ELSE -1
        surplusCol ==
            IF sc.surplusVar # Null
            THEN first + (IF sc.slackVar # Null THEN 1 ELSE 0) ELSE -1
        artificialCol ==
            IF sc.artificialVar # Null
            THEN first + (IF sc.slackVar # Null THEN 1 ELSE 0)
                       + (IF sc.surplusVar # Null THEN 1 ELSE 0)
            ELSE -1
    IN  IF col = totalVars THEN sc.rhs
        ELSE IF col < numVars THEN CoefOrZero(sc.coefficients, col)
        ELSE IF col = artificialCol THEN One
        ELSE IF col = surplusCol THEN RNeg(One)
        ELSE IF col = slackCol THEN One
        ELSE Zero

\* the column (0-based) in which the row of constraint i (1-based) gets the
\* entry of its slack variable, or else of its surplus variable; -1 when the
\* constraint has neither
SlackOrSurplusColumn(sf, i) ==
    IF sf.constraints[i].slackVar # Null \/ sf.constraints[i].surplusVar # Null
    THEN FirstColumnOf(sf, i)
    ELSE -1

\* the column (0-based) in which the row of constraint i (1-based) gets the
\* entry of its slack variable, or else of its artificial variable
SlackOrArtificialColumn(sf, i) ==
    IF sf.constraints[i].slackVar # Null THEN FirstColumnOf(sf, i)
    ELSE FirstColumnOf(sf, i)
             + (IF sf.constraints[i].surplusVar # Null THEN 1 ELSE 0)

\* basicVariables: one push per constraint that has a slack or an artificial
RECURSIVE InitialBasic(_, _)
InitialBasic(scs, k) ==
    IF k = 0 THEN <<>>
    ELSE LET sc == scs[k]
             rest == InitialBasic(scs, k - 1)
         IN  IF sc.slackVar # Null THEN Append(rest, sc.slackVar)
             ELSE IF sc.artificialVar # Null THEN Append(rest, sc.artificialVar)
             ELSE rest

\* nonBasicVariables after the "Build variable names" loop over the first k
\* constraints
RECURSIVE NonBasicPushed(_, _, _, _)
NonBasicPushed(variables, scs, basic, k) ==
    IF k = 0 THEN variables
    ELSE LET sc == scs[k]
             n0 == NonBasicPushed(variables, scs, basic, k - 1)
             n1 == IF sc.slackVar # Null /\ ~ Includes(basic, sc.slackVar)
                   THEN Append(n0, sc.slackVar) ELSE n0
             n2 == IF sc.surplusVar # Null THEN Append(n1, sc.surplusVar) ELSE n1
             n3 == IF sc.artificialVar # Null /\ ~ Includes(basic, sc.artificialVar)
                   THEN Append(n2, sc.artificialVar) ELSE n2
         IN  n3

\* allVariables after the "Build variable names" loop over the first k
\* constraints: the name of the variable of every tableau column, in column
\* order
RECURSIVE AllVariablesPushed(_, _, _)
AllVariablesPushed(variables, scs, k) ==
    IF k = 0 THEN variables
    ELSE LET sc == scs[k]
             n0 == AllVariablesPushed(variables, scs, k - 1)
             n1 == IF sc.slackVar # Null THEN Append(n0, sc.slackVar) ELSE n0
             n2 == IF sc.surplusVar # Null THEN Append(n1, sc.surplusVar) ELSE n1
             n3 == IF sc.artificialVar # Null THEN Append(n2, sc.artificialVar)
                   ELSE n2
         IN  n3

allVariables(sf) ==
    AllVariablesPushed(sf.variables, sf.constraints, Len(sf.constraints))

\* "Remove basic variables from non-basic list": for each of the first k basic
\* variables, the first occurrence of its name is spliced out
RECURSIVE RemoveBasic(_, _, _)
RemoveBasic(nonBasic, basic, k) ==
    IF k = 0 THEN nonBasic
    ELSE LET n0 == RemoveBasic(nonBasic, basic, k - 1)
             index == IndexOf(n0, basic[k])
         IN  IF index > -1 THEN Splice1(n0, index) ELSE n0

\* the `rhs` field of a tableau: the last entry of every row
RhsOf(table) == [r \in 1..Len(table) |-> table[r][Len(table[r])]]

initializeTableau(sf) ==
    LET numVars == Len(sf.variables)
        numConstraints == Len(sf.constraints)
        totalVars == numVars + sf.slackVarCount + sf.surplusVarCount
                     + sf.artificialVarCount
        objectiveRow ==
            [c \in 1..(totalVars + 1) |->
                IF c <= numVars
                THEN RNeg(CoefOrZero(sf.objectiveCoefficients, c - 1)) ELSE Zero]
        table ==
            [r \in 1..(numConstraints + 1) |->
                IF r <= numConstraints
                THEN [c \in 1..(totalVars + 1) |->
                         ConstraintRowEntry(sf, r, c - 1, totalVars)]
                ELSE objectiveRow]
        basicVariables == InitialBasic(sf.constraints, numConstraints)
        nonBasicVariables ==
            RemoveBasic(NonBasicPushed(sf.variables, sf.constraints,
                                       basicVariables, numConstraints),
                        basicVariables, Len(basicVariables))
    IN  [table |-> table,
         basicVariables |-> basicVariables,
         nonBasicVariables |-> nonBasicVariables,
         objectiveRow |-> objectiveRow,
         rhs |-> RhsOf(table),
         iteration |-> 0,
         isOptimal |-> checkOptimality(objectiveRow),
         pivotRow |-> NoPivot,
         pivotCol |-> NoPivot,
         explanation |-> <<"tableau inicial">>]

(***************************************************************************)
(* SimplexSolver.findPivotColumn, findPivotRow, pivot, extractSolution     *)
(***************************************************************************)
\* the for-loop of findPivotColumn from 0-based column j on
RECURSIVE PivotColumnLoop(_, _, _, _)
PivotColumnLoop(objectiveRow, j, minValue, pivotCol) ==
    IF j >= Len(objectiveRow) - 1 THEN pivotCol
    ELSE IF RLt(objectiveRow[j + 1], minValue)
         THEN PivotColumnLoop(objectiveRow, j + 1, objectiveRow[j + 1], j)
         ELSE PivotColumnLoop(objectiveRow, j + 1, minValue, pivotCol)

findPivotColumn(tb) ==
    PivotColumnLoop(tb.table[Len(tb.table)], 0, Zero, -1)

\* the for-loop of findPivotRow from 0-based row i on
RECURSIVE PivotRowLoop(_, _, _, _, _)
PivotRowLoop(table, pivotCol, i, minRatio, pivotRow) ==
    IF i >= Len(table) - 1 THEN pivotRow
    ELSE LET element == table[i + 1][pivotCol + 1]
             rhs == table[i + 1][Len(table[i + 1])]
         IN  IF RLt(Zero, element) /\ RLt(RDiv(rhs, element), minRatio)
             THEN PivotRowLoop(table, pivotCol, i + 1, RDiv(rhs, element), i)
             ELSE PivotRowLoop(table, pivotCol, i + 1, minRatio, pivotRow)

\* findPivotRow without the ratio test: the first row with a positive entry
findPivotRow_NoRatioTest(tb, pivotCol) ==
    LET positive == {i \in 0..(Len(tb.table) - 2) :
                        RLt(Zero, tb.table[i + 1][pivotCol + 1])}
    IN  IF positive = {} THEN -1
        ELSE CHOOSE i \in positive : \A m \in positive : i <= m

\* findPivotRow with `ratio <= minRatio`: the last row among ties
findPivotRow_LastOnTies(tb, pivotCol) ==
    LET positive == {i \in 0..(Len(tb.table) - 2) :
                        RLt(Zero, tb.table[i + 1][pivotCol + 1])}
        Ratio(i) == RDiv(tb.table[i + 1][Len(tb.table[i + 1])],
                         tb.table[i + 1][pivotCol + 1])
    IN  IF positive = {} THEN -1
        ELSE CHOOSE i \in positive :
                 \A m \in positive :
                     RLt(Ratio(i), Ratio(m)) \/ (Ratio(i) = Ratio(m) /\ m <= i)

\* findPivotRow with `let pivotRow = 0`: it never answers -1
findPivotRow_DefaultZero(tb, pivotCol) ==
    PivotRowLoop(tb.table, pivotCol, 0, PosInf, 0)

findPivotRow(tb, pivotCol) ==
    PivotRowLoop(tb.table, pivotCol, 0, PosInf, -1)

\* pivot's elimination loop stopping before the objective row
PivotTable_SkipsObjectiveRow(table, pivotRow, pivotCol) ==
    LET pivotElement == table[pivotRow + 1][pivotCol + 1]
        normalized ==
            [j \in 1..Len(table[pivotRow + 1]) |->
                RDiv(table[pivotRow + 1][j], pivotElement)]
    IN  [i \in 1..Len(table) |->
            IF i = pivotRow + 1 THEN normalized
            ELSE IF i = Len(table) THEN table[i]
            ELSE LET multiplier == table[i][pivotCol + 1]
                 IN  [j \in 1..Len(table[i]) |->
                         RSub(table[i][j], RMul(multiplier, normalized[j]))]]

\* newTable after "Normalize pivot row" and "Eliminate other rows"
PivotTable(table, pivotRow, pivotCol) ==
    LET pivotElement == table[pivotRow + 1][pivotCol + 1]
        normalized ==
            [j \in 1..Len(table[pivotRow + 1]) |->
                RDiv(table[pivotRow + 1][j], pivotElement)]
    IN  [i \in 1..Len(table) |->
            IF i = pivotRow + 1 THEN normalized
            ELSE LET multiplier == table[i][pivotCol + 1]
                 IN  [j \in 1..Len(table[i]) |->
                         RSub(table[i][j], RMul(multiplier, normalized[j]))]]

\* tableau.nonBasicVariables[pivotCol] || `x${pivotCol + 1}`
EnteringVar(tb, pivotCol) ==
    IF pivotCol + 1 <= Len(tb.nonBasicVariables)
    THEN tb.nonBasicVariables[pivotCol + 1]
    ELSE "x" \o NumStr(pivotCol + 1)

pivot(tb, pivotRow, pivotCol, iter) ==
    LET newTable == PivotTable(tb.table, pivotRow, pivotCol)
        enteringVar == EnteringVar(tb, pivotCol)
        newBasicVariables ==
            [tb.basicVariables EXCEPT ![pivotRow + 1] = enteringVar]
        leavingVar == tb.basicVariables[pivotRow + 1]
        enteringIndex == IndexOf(tb.nonBasicVariables, enteringVar)
        newNonBasicVariables ==
            IF enteringIndex > -1
            THEN [tb.nonBasicVariables EXCEPT ![enteringIndex + 1] = leavingVar]
            ELSE tb.nonBasicVariables
        objectiveRow == newTable[Len(newTable)]
    IN  [table |-> newTable,
         basicVariables |-> newBasicVariables,
         nonBasicVariables |-> newNonBasicVariables,
         objectiveRow |-> objectiveRow,
         rhs |-> RhsOf(newTable),
         iteration |-> iter,
         isOptimal |-> checkOptimality(objectiveRow),
         pivotRow |-> NoPivot,
         pivotCol |-> NoPivot,
         explanation |-> <<"pivote", pivotRow + 1, pivotCol + 1>>]

\* the variables map after the first k basic variables were written into it
RECURSIVE ExtractLoop(_, _, _)
ExtractLoop(tb, sf, k) ==
    IF k = 0 THEN [v \in {sf.variables[j] : j \in 1..Len(sf.variables)} |-> Zero]
    ELSE LET m == ExtractLoop(tb, sf, k - 1)
             varName == tb.basicVariables[k]
         IN  IF Includes(sf.variables, varName)
             THEN [m EXCEPT ![varName] = RMax(Zero, tb.rhs[k])]
             ELSE m

extractSolution(tb, sf) ==
    LET corner == tb.table[Len(tb.table)][Len(tb.table[1])]
    IN  [variables |-> ExtractLoop(tb, sf, Len(tb.basicVariables)),
         objectiveValue |->
             IF sf.originalType = "minimize" THEN RNeg(corner) ELSE corner]

(***************************************************************************)
(* GraphicalSolver.  A Line keeps, of its label `${expression} ${operator}  *)
(* ${c}`, the operator the label spells: isPointFeasible reads nothing     *)
(* else of it (a constraint expression holds no comparison symbol).  The   *)
(* operators less-or-equal and greater-or-equal are written "<=" and ">=".                        *)
(***************************************************************************)
maxCoord == 20          \* findFeasibleRegion: maxCoord
StepsPerUnit == 2       \* findFeasibleRegion: step = 0.5 = 1 / StepsPerUnit

convertConstraintsToLines(constraints) ==
    [i \in 1..(Len(constraints) + 2) |->
        IF i <= Len(constraints)
        THEN [a |-> CoefOrZero(constraints[i].coefficients, 0),
              b |-> CoefOrZero(constraints[i].coefficients, 1),
              c |-> constraints[i].rhs,
              label |-> constraints[i].operator]
        ELSE IF i = Len(constraints) + 1
        THEN [a |-> One, b |-> Zero, c |-> Zero, label |-> ">="]
        ELSE [a |-> Zero, b |-> One, c |-> Zero, label |-> ">="]]

\* one line's test inside isPointFeasible: TRUE when the line rejects the point
LineViolated(line, point) ==
    LET \* value - line.c, with value = line.a * point.x + line.b * point.y,
        \* as an unreduced fraction
        n == (line.a[1] * point.x[1] * line.b[2] * point.y[2]
              + line.b[1] * point.y[1] * line.a[2] * point.x[2]) * line.c[2]
             - line.c[1] * line.a[2] * point.x[2] * line.b[2] * point.y[2]
        d == line.a[2] * point.x[2] * line.b[2] * point.y[2] * line.c[2]
    IN  IF line.label = "<=" THEN Gt1e10(<<n, d>>)
        ELSE IF line.label = ">=" THEN LtNeg1e10(<<n, d>>)
        ELSE IF line.label = "=" THEN AbsGt1e10(<<n, d>>)
        ELSE FALSE

isPointFeasible(point, constraintLines) ==
    \A k \in 1..Len(constraintLines) : ~ LineViolated(constraintLines[k], point)

GridPoint(k, l) == [x |-> Norm(k, StepsPerUnit), y |-> Norm(l, StepsPerUnit)]

\* findFeasibleRegion: the grid is scanned x-major; of the list of feasible
\* grid points the model keeps the first one only (solve reads the list's
\* length, and only to compare it with 0)
findFeasibleRegion(constraintLines) ==
    LET Grid == 0..(maxCoord * StepsPerUnit)
        Feasible(k, l) == isPointFeasible(GridPoint(k, l), constraintLines)
    IN  IF \E k \in Grid : \E l \in Grid : Feasible(k, l)
        THEN LET k0 == CHOOSE k \in Grid :
                           /\ \E l \in Grid : Feasible(k, l)
                           /\ \A m \in 0..(k - 1) : \A l \in Grid : ~ Feasible(m, l)
                 l0 == CHOOSE l \in Grid :
                           /\ Feasible(k0, l)
                           /\ \A m \in 0..(l - 1) : ~ Feasible(k0, m)
             IN  <<GridPoint(k0, l0)>>
        ELSE <<>>

\* Cramer's rule; null when the lines are parallel
findLineIntersection(line1, line2) ==
    LET denominator == RSub(RMul(line1.a, line2.b), RMul(line2.a, line1.b))
    IN  IF AbsLt1e10(denominator) THEN NoPoint
        ELSE [x |-> RDiv(RSub(RMul(line1.c, line2.b), RMul(line2.c, line1.b)),
                         denominator),
              y |-> RDiv(RSub(RMul(line1.a, line2.c), RMul(line2.a, line1.c)),
                         denominator)]

\* the nested loops of findCornerPoints from the pair (i, j) on, 0-based
RECURSIVE CornerLoop(_, _, _, _)
CornerLoop(constraintLines, i, j, cornerPoints) ==
    IF i >= Len(constraintLines) THEN cornerPoints
    ELSE IF j >= Len(constraintLines)
         THEN CornerLoop(constraintLines, i + 1, i + 2, cornerPoints)
         ELSE LET intersection ==
                      findLineIntersection(constraintLines[i + 1],
                                           constraintLines[j + 1])
                  exists ==
                      \E k \in 1..Len(cornerPoints) :
                          /\ AbsLt1e6(RSub(cornerPoints[k].x, intersection.x))
                          /\ AbsLt1e6(RSub(cornerPoints[k].y, intersection.y))
              IN  IF /\ intersection # NoPoint
                     /\ isPointFeasible(intersection, constraintLines)
                     /\ ~ exists
                  THEN CornerLoop(constraintLines, i, j + 1,
                                  Append(cornerPoints, intersection))
                  ELSE CornerLoop(constraintLines, i, j + 1, cornerPoints)

findCornerPoints(constraintLines) == CornerLoop(constraintLines, 0, 1, <<>>)

evaluateObjective(point, objective) ==
    RAdd(RMul(CoefOrZero(objective.coefficients, 0), point.x),
         RMul(CoefOrZero(objective.coefficients, 1), point.y))

\* the for-loop of findOptimalPoint from 0-based corner i on
RECURSIVE OptimalLoop(_, _, _, _, _)
OptimalLoop(cornerPoints, objective, type, i, best) ==
    IF i >= Len(cornerPoints) THEN best
    ELSE LET point == cornerPoints[i + 1]
             value == evaluateObjective(point, objective)
         IN  IF \/ type = "maximize" /\ RLt(best.optimalValue, value)
                \/ type = "minimize" /\ RLt(value, best.optimalValue)
             THEN OptimalLoop(cornerPoints, objective, type, i + 1,
                              [optimalPoint |-> point, optimalValue |-> value,
                               isUnbounded |-> FALSE])
             ELSE OptimalLoop(cornerPoints, objective, type, i + 1, best)

findOptimalPoint(cornerPoints, objective, type) ==
    IF Len(cornerPoints) = 0
    THEN [optimalPoint |-> NoPoint, optimalValue |-> Zero, isUnbounded |-> TRUE]
    ELSE OptimalLoop(cornerPoints, objective, type, 1,
                     [optimalPoint |-> cornerPoints[1],
                      optimalValue |-> evaluateObjective(cornerPoints[1], objective),
                      isUnbounded |-> FALSE])

\* GraphicalSolver.solve past the check of the number of variables
SolveTwoVariables(p) ==
         LET constraintLines == convertConstraintsToLines(p.constraints)
             feasibleRegion == findFeasibleRegion(constraintLines)
             cornerPoints == findCornerPoints(constraintLines)
             opt == findOptimalPoint(cornerPoints, p.objective, p.type)
         IN  IF Len(feasibleRegion) = 0
             THEN [isValid |-> TRUE, isFeasible |-> FALSE, isUnbounded |-> FALSE,
                   optimalPoint |-> NoPoint, optimalValue |-> Zero,
                   feasibleRegion |-> <<>>, constraintLines |-> constraintLines,
                   cornerPoints |-> <<>>, errorMessage |-> <<>>]
             ELSE IF opt.isUnbounded
             THEN [isValid |-> TRUE, isFeasible |-> TRUE, isUnbounded |-> TRUE,
                   optimalPoint |-> NoPoint,
                   optimalValue |->
                       IF p.type = "maximize" THEN PosInf ELSE NegInf,
                   feasibleRegion |-> feasibleRegion,
                   constraintLines |-> constraintLines,
                   cornerPoints |-> cornerPoints, errorMessage |-> <<>>]
             ELSE [isValid |-> TRUE, isFeasible |-> TRUE, isUnbounded |-> FALSE,
                   optimalPoint |-> opt.optimalPoint,
                   optimalValue |-> opt.optimalValue,
                   feasibleRegion |-> feasibleRegion,
                   constraintLines |-> constraintLines,
                   cornerPoints |-> cornerPoints, errorMessage |-> <<>>]

\* GraphicalSolver.solve without the check of the number of variables
GraphicalSolverSolve_NoWidthCheck(p) == SolveTwoVariables(p)

GraphicalSolverSolve(p) ==
    IF Len(p.variables) # 2
    THEN [isValid |-> FALSE, isFeasible |-> FALSE, isUnbounded |-> FALSE,
          optimalPoint |-> NoPoint, optimalValue |-> Zero, feasibleRegion |-> <<>>,
          constraintLines |-> <<>>, cornerPoints |-> <<>>,
          errorMessage |-> <<"solo 2 variables", Len(p.variables)>>]
    ELSE SolveTwoVariables(p)

(***************************************************************************)
(* SensitivityAnalyzer.  Math.random is a generator with a hidden state,   *)
(* which a call of analyze finds in any state `seed`: the k-th call after  *)
(* it returns ((seed + k) mod RandomStates) / RandomStates, a number in    *)
(* [0, 1).                                                                 *)
(***************************************************************************)
Random(seed, k) == Norm((seed + k) % RandomStates, RandomStates)

\* Math.random() * scale + offset
Placeholder(seed, k, scale, offset) == RAdd(RMul(Random(seed, k), R(scale)), R(offset))

calculateAllowableIncrease(seed, k) == Placeholder(seed, k, 10, 5)
calculateAllowableDecrease(seed, k) == Placeholder(seed, k, 5, 2)
calculateObjectiveIncrease(seed, k) == Placeholder(seed, k, 8, 3)
calculateObjectiveDecrease(seed, k) == Placeholder(seed, k, 6, 2)
calculateRHSIncrease(seed, k) == Placeholder(seed, k, 12, 4)
calculateRHSDecrease(seed, k) == Placeholder(seed, k, 8, 2)

\* constraint.expression || `Restriccion ${i + 1}`, i 0-based
ConstraintName(p, i) ==
    IF p.constraints[i + 1].expression # ""
    THEN p.constraints[i + 1].expression
    ELSE "Restriccion " \o NumStr(i + 1)

\* the shadow price read at column i instead of variables.length + i
ShadowPriceValue_NoOffset(finalTableau, p, i) ==
    IF i < Len(finalTableau.objectiveRow)
    THEN RAbs(finalTableau.objectiveRow[i + 1])
    ELSE Zero

\* the shadow price calculateShadowPrices reads for 0-based constraint i
ShadowPriceValue(finalTableau, p, i) ==
    LET slackVarIndex == Len(p.variables) + i
    IN  IF slackVarIndex < Len(finalTableau.objectiveRow)
        THEN RAbs(finalTableau.objectiveRow[slackVarIndex + 1])
        ELSE Zero

\* calculateReducedCost reading objectiveRow[index + 1]
calculateReducedCost_NextColumn(finalTableau, variable, index) ==
    IF Includes(finalTableau.basicVariables, variable) THEN Zero
    ELSE IF index + 2 <= Len(finalTableau.objectiveRow)
         THEN finalTableau.objectiveRow[index + 2]
         ELSE Zero

calculateReducedCost(finalTableau, variable, index) ==
    IF Includes(finalTableau.basicVariables, variable) THEN Zero
    ELSE IF index + 1 <= Len(finalTableau.objectiveRow)
         THEN finalTableau.objectiveRow[index + 1]
         ELSE Zero

\* Math.random calls made by calculateShadowPrices for constraints 0..i-1
ShadowDraws(finalTableau, p, i) ==
    2 * Cardinality({m \in 0..(i - 1) :
                        RLt(Zero, ShadowPriceValue(finalTableau, p, m))})

\* Math.random calls made by calculateObjectiveRanges for variables 0..i-1
ObjectiveDraws(finalTableau, p, i) ==
    2 * Cardinality({m \in 0..(i - 1) :
                        calculateReducedCost(finalTableau, p.variables[m + 1], m)
                        = Zero})

calculateShadowPrices(finalTableau, p, seed) ==
    [n \in 1..Len(p.constraints) |->
        LET i == n - 1
            shadowPrice == ShadowPriceValue(finalTableau, p, i)
            k == ShadowDraws(finalTableau, p, i)
        IN  [constraint |-> ConstraintName(p, i),
             shadowPrice |-> shadowPrice,
             allowableIncrease |->
                 IF RLt(Zero, shadowPrice)
                 THEN calculateAllowableIncrease(seed, k) ELSE PosInf,
             allowableDecrease |->
                 IF RLt(Zero, shadowPrice)
                 THEN calculateAllowableDecrease(seed, k + 1) ELSE Zero,
             interpretation |->
                 IF shadowPrice = Zero THEN <<"no activa">>
                 ELSE <<"precio sombra", shadowPrice, p.type>>]]

calculateObjectiveRanges(finalTableau, p, seed) ==
    [n \in 1..Len(p.variables) |->
        LET i == n - 1
            reducedCost == calculateReducedCost(finalTableau, p.variables[n], i)
            k == ObjectiveDraws(finalTableau, p, i)
        IN  [variable |-> p.variables[n],
             currentValue |-> CoefOrZero(p.objective.coefficients, i),
             allowableIncrease |->
                 IF reducedCost = Zero
                 THEN calculateObjectiveIncrease(seed, k) ELSE PosInf,
             allowableDecrease |->
                 IF reducedCost = Zero
                 THEN calculateObjectiveDecrease(seed, k + 1) ELSE PosInf,
             reducedCost |-> reducedCost]]

\* calculateRHSRanges that finds no bounding row on either side
calculateRHSRanges_Unbounded(finalTableau, p, shadowPrices, seed) ==
    [n \in 1..Len(p.constraints) |->
        [constraint |-> ConstraintName(p, n - 1),
         currentValue |-> p.constraints[n].rhs,
         allowableIncrease |-> PosInf,
         allowableDecrease |-> PosInf,
         shadowPrice |-> shadowPrices[n].shadowPrice]]

calculateRHSRanges(finalTableau, p, shadowPrices, seed) ==
    [n \in 1..Len(p.constraints) |->
        LET i == n - 1
        IN  [constraint |-> ConstraintName(p, i),
             currentValue |-> p.constraints[n].rhs,
             allowableIncrease |-> calculateRHSIncrease(seed, 2 * i),
             allowableDecrease |-> calculateRHSDecrease(seed, 2 * i + 1),
             shadowPrice |-> shadowPrices[n].shadowPrice]]

\* criticalRanges: the critical objective coefficients, then the critical
\* right-hand sides
RECURSIVE CriticalOf(_, _, _)
CriticalOf(ranges, k, tag) ==
    IF k = 0 THEN <<>>
    ELSE LET rest == CriticalOf(ranges, k - 1, tag)
             r == ranges[k]
         IN  IF RLt(r.allowableIncrease, One) \/ RLt(r.allowableDecrease, One)
             THEN Append(rest, <<IF tag = "objetivo" THEN r.variable
                                  ELSE r.constraint, tag>>)
             ELSE rest

analyzeBasisStability(objectiveCoefficients, rhsRanges) ==
    LET criticalRanges ==
            CriticalOf(objectiveCoefficients, Len(objectiveCoefficients), "objetivo")
            \o CriticalOf(rhsRanges, Len(rhsRanges), "lado derecho")
    IN  [isStable |-> Len(criticalRanges) = 0, criticalRanges |-> criticalRanges]

\* shadowPrices.reduce((prev, curr) => curr.shadowPrice > prev.shadowPrice ?
\* curr : prev, shadowPrices[0]) over the first k elements
RECURSIVE HighestPrice(_, _)
HighestPrice(shadowPrices, k) ==
    IF k = 0 THEN shadowPrices[1]
    ELSE LET prev == HighestPrice(shadowPrices, k - 1)
         IN  IF RLt(prev.shadowPrice, shadowPrices[k].shadowPrice)
             THEN shadowPrices[k] ELSE prev

\* objectiveCoefficients.reduce(...) of createSummary over the first k elements
RECURSIVE NarrowestRange(_, _)
NarrowestRange(objectiveCoefficients, k) ==
    IF k = 0 THEN objectiveCoefficients[1]
    ELSE LET prev == NarrowestRange(objectiveCoefficients, k - 1)
             curr == objectiveCoefficients[k]
         IN  IF RLt(RMin(curr.allowableIncrease, curr.allowableDecrease),
                    RMin(prev.allowableIncrease, prev.allowableDecrease))
             THEN curr ELSE prev

\* nonBasicVariables.reduce(...) of generateRecommendations over the first k
\* elements
RECURSIVE LargestReducedCost(_, _)
LargestReducedCost(objectiveCoefficients, k) ==
    IF k = 1 THEN objectiveCoefficients[1]
    ELSE LET prev == LargestReducedCost(objectiveCoefficients, k - 1)
             curr == objectiveCoefficients[k]
         IN  IF RLt(RAbs(prev.reducedCost), RAbs(curr.reducedCost))
             THEN curr ELSE prev

\* Array.filter over the first k elements
RECURSIVE FilterPositivePrice(_, _)
FilterPositivePrice(shadowPrices, k) ==
    IF k = 0 THEN <<>>
    ELSE IF RLt(Zero, shadowPrices[k].shadowPrice)
         THEN Append(FilterPositivePrice(shadowPrices, k - 1), shadowPrices[k])
         ELSE FilterPositivePrice(shadowPrices, k - 1)

RECURSIVE FilterNonZeroCost(_, _)
FilterNonZeroCost(objectiveCoefficients, k) ==
    IF k = 0 THEN <<>>
    ELSE IF objectiveCoefficients[k].reducedCost # Zero
         THEN Append(FilterNonZeroCost(objectiveCoefficients, k - 1),
                     objectiveCoefficients[k])
         ELSE FilterNonZeroCost(objectiveCoefficients, k - 1)

\* the stable sort by descending shadow price puts the first highest price first
generateRecommendations(shadowPrices, objectiveCoefficients) ==
    LET highShadowPrices == FilterPositivePrice(shadowPrices, Len(shadowPrices))
        nonBasicVariables ==
            FilterNonZeroCost(objectiveCoefficients, Len(objectiveCoefficients))
    IN  (IF Len(highShadowPrices) > 0
         THEN LET top == HighestPrice(highShadowPrices, Len(highShadowPrices))
              IN  <<(<<"aumentar recurso", top.constraint, top.shadowPrice>>)>>
         ELSE <<>>)
        \o (IF Len(nonBasicVariables) > 0
            THEN LET best == LargestReducedCost(nonBasicVariables,
                                                Len(nonBasicVariables))
                 IN  <<(<<"no esta en la base", best.variable, best.reducedCost>>)>>
            ELSE <<>>)
        \o (IF Len(highShadowPrices) > 0
            THEN <<(<<"restricciones activas", Len(highShadowPrices)>>)>>
            ELSE <<>>)

StartsWithS(name) == \E n \in 1..32 : name = "s" \o NumStr(n)

RECURSIVE SumSlack(_, _)
SumSlack(tb, k) ==
    IF k = 0 THEN Zero
    ELSE IF k <= Len(tb.basicVariables) /\ StartsWithS(tb.basicVariables[k])
         THEN RAdd(SumSlack(tb, k - 1), tb.rhs[k])
         ELSE SumSlack(tb, k - 1)

createSummary(shadowPrices, objectiveCoefficients, finalTableau) ==
    [mostSensitiveVariable |->
         IF Len(objectiveCoefficients) = 0 THEN ""
         ELSE NarrowestRange(objectiveCoefficients,
                             Len(objectiveCoefficients)).variable,
     mostConstrainingResource |->
         IF Len(shadowPrices) = 0 THEN ""
         ELSE HighestPrice(shadowPrices, Len(shadowPrices)).constraint,
     totalSlack |-> SumSlack(finalTableau, Len(finalTableau.rhs))]

InvalidAnalysis ==
    [isValid |-> FALSE, shadowPrices |-> <<>>, objectiveCoefficients |-> <<>>,
     rhsRanges |-> <<>>,
     optimalBasisStability |-> [isStable |-> FALSE, criticalRanges |-> <<>>],
     recommendations |-> <<(<<"requiere una solucion optima valida">>)>>,
     summary |-> [mostSensitiveVariable |-> "", mostConstrainingResource |-> "",
                  totalSlack |-> Zero]]

\* analyze past its guard: the analysis of an optimal solution
ValidAnalysis(sol, p, seed) ==
         LET finalTableau == sol.finalTableau
             d1 == ShadowDraws(finalTableau, p, Len(p.constraints))
             d2 == d1 + ObjectiveDraws(finalTableau, p, Len(p.variables))
             shadowPrices == calculateShadowPrices(finalTableau, p, seed)
             objectiveCoefficients ==
                 calculateObjectiveRanges(finalTableau, p, seed + d1)
             rhsRanges ==
                 calculateRHSRanges(finalTableau, p, shadowPrices, seed + d2)
         IN  [isValid |-> TRUE,
              shadowPrices |-> shadowPrices,
              objectiveCoefficients |-> objectiveCoefficients,
              rhsRanges |-> rhsRanges,
              optimalBasisStability |->
                  analyzeBasisStability(objectiveCoefficients, rhsRanges),
              recommendations |->
                  generateRecommendations(shadowPrices, objectiveCoefficients),
              summary |->
                  createSummary(shadowPrices, objectiveCoefficients, finalTableau)]

\* analyze with a guard that reads finalTableau only
analyze_IgnoresStatus(sol, p, seed) ==
    IF sol.finalTableau = Unset THEN InvalidAnalysis
    ELSE ValidAnalysis(sol, p, seed)

analyze(sol, p, seed) ==
    IF ~ sol.isOptimal \/ sol.finalTableau = Unset THEN InvalidAnalysis
    ELSE ValidAnalysis(sol, p, seed)

(***************************************************************************)
(* The Problems handed to the solvers: two decision variables, an          *)
(* objective from ObjectivePool, and 1..MaxConstraints constraints from    *)
(* ConstraintPool in any order.  The pools hold the constraints and        *)
(* objectives of the example problems and of the scenarios of the          *)
(* specification, and an equality.  OtherProblems adds a Problem of one    *)
(* variable, a degenerate Problem of four, a Problem of two equalities and *)
(* a Problem of three variables.                                           *)
(***************************************************************************)
Constraint(a, b, operator, rhs, expression) ==
    [coefficients |-> <<R(a), R(b)>>, operator |-> operator, rhs |-> R(rhs),
     expression |-> expression]

ConstraintPool ==
    { Constraint(1, 1, "<=", 4, "x1 + x2"),
      Constraint(2, 1, "<=", 6, "2x1 + x2"),
      Constraint(1, 2, ">=", 6, "x1 + 2x2"),
      Constraint(2, 1, ">=", 8, "2x1 + x2"),
      Constraint(1, -1, "<=", 1, "x1 - x2"),
      Constraint(1, 1, "=", 3, "x1 + x2") }

ObjectivePool == { <<R(3), R(2)>>, <<R(2), R(3)>>, <<R(1), R(1)>> }

Problems ==
    { [type |-> t,
       variables |-> <<"x1", "x2">>,
       objective |-> [coefficients |-> o],
       constraints |-> cs] :
        t \in {"maximize", "minimize"},
        o \in ObjectivePool,
        cs \in UNION { [1..n -> ConstraintPool] : n \in 1..MaxConstraints } }

\* Problems of other widths.  DegenerateProblem (four variables, two
\* constraints with right-hand side 0) makes the pivoting rules of solve
\* revisit the same six bases for ever; SingleVariableProblem has one variable.
DegenerateProblem ==
    [type |-> "maximize",
     variables |-> <<"x1", "x2", "x3", "x4">>,
     objective |-> [coefficients |-> <<R(10), R(-57), R(-9), R(-24)>>],
     constraints |->
         << [coefficients |-> << <<1, 2>>, <<-11, 2>>, <<-5, 2>>, R(9) >>,
             operator |-> "<=", rhs |-> Zero,
             expression |-> "0.5x1 - 5.5x2 - 2.5x3 + 9x4"],
            [coefficients |-> << <<1, 2>>, <<-3, 2>>, <<-1, 2>>, R(1) >>,
             operator |-> "<=", rhs |-> Zero,
             expression |-> "0.5x1 - 1.5x2 - 0.5x3 + x4"],
            [coefficients |-> <<R(1)>>,
             operator |-> "<=", rhs |-> One,
             expression |-> "x1"] >>]

SingleVariableProblem ==
    [type |-> "maximize",
     variables |-> <<"x1">>,
     objective |-> [coefficients |-> <<R(1)>>],
     constraints |->
         << [coefficients |-> <<R(1)>>, operator |-> "<=", rhs |-> R(4),
             expression |-> "x1"] >>]

\* two equalities whose only common point, (10/3, 4/3), lies between the
\* points of the grid that findFeasibleRegion scans
OffGridProblem ==
    [type |-> "minimize",
     variables |-> <<"x1", "x2">>,
     objective |-> [coefficients |-> <<R(2), R(3)>>],
     constraints |-> << Constraint(1, 2, "=", 6, "x1 + 2x2"),
                        Constraint(2, 1, "=", 8, "2x1 + x2") >>]

\* three variables and three <= constraints: x3 enters the basis in a row
\* that pivot then names after a slack variable
ThreeVariableProblem ==
    [type |-> "maximize",
     variables |-> <<"x1", "x2", "x3">>,
     objective |-> [coefficients |-> <<R(1), R(-1), R(2)>>],
     constraints |->
         << [coefficients |-> <<R(-2), R(1), R(2)>>, operator |-> "<=",
             rhs |-> R(2), expression |-> "-2x1 + x2 + 2x3"],
            [coefficients |-> <<R(1), R(-2), R(3)>>, operator |-> "<=",
             rhs |-> R(2), expression |-> "x1 - 2x2 + 3x3"],
            [coefficients |-> <<R(2), R(-1), R(0)>>, operator |-> "<=",
             rhs |-> R(6), expression |-> "2x1 - x2"] >>]

OtherProblems ==
    {DegenerateProblem, SingleVariableProblem, OffGridProblem, ThreeVariableProblem}

(***************************************************************************)
(* State machine: LinearProgrammingApp.handleSolve runs SimplexSolver      *)
(* .solve (SolveStart, then one SolvePivot per pivot, ending in            *)
(* SolveUnbounded or SolveFinish), GraphicalSolver.solve and               *)
(* SensitivityAnalyzer.analyze.  The analysis may then be asked for once   *)
(* more (Reanalyze), and the user may solve the same Problem a second     *)
(* time.  AnalyzeWithoutTableau is analyze called on a solution that       *)
(* holds no final tableau.                                                 *)
(***************************************************************************)
maxIterations == 100

Init ==
    /\ problem \in Problems \cup OtherProblems
    /\ pc = "idle"
    /\ tableau = Unset
    /\ tableaus = <<>>
    /\ steps = <<>>
    /\ iteration = 0
    /\ standardForm = Unset
    /\ solution = Unset
    /\ prevSolution = Unset
    /\ graphical = Unset
    /\ sensitivity = Unset
    /\ prevSensitivity = Unset
    /\ rerun = FALSE

\* solve with `tableaus` kept in the shared SimplexSolver instance and never
\* emptied
SolveStart_KeepsTableaus ==
    /\ pc \in {"idle", "analyzed", "reanalyzed"}
    /\ ~ rerun
    /\ rerun' = (pc # "idle")
    /\ standardForm' = convertToStandardForm(problem)
    /\ tableau' = initializeTableau(standardForm')
    /\ tableaus' = Append(tableaus, tableau')
    /\ steps' = << <<"tableau inicial creado", 0>> >>
    /\ iteration' = 0
    /\ prevSolution' = solution
    /\ prevSensitivity' = Unset
    /\ solution' = Unset
    /\ graphical' = Unset
    /\ sensitivity' = Unset
    /\ pc' = "loop"
    /\ UNCHANGED problem

\* solve, lines up to the while loop; the results of the previous run are
\* kept aside
SolveStart ==
    /\ pc \in {"idle", "analyzed", "reanalyzed"}
    /\ ~ rerun
    /\ rerun' = (pc # "idle")
    /\ standardForm' = convertToStandardForm(problem)
    /\ tableau' = initializeTableau(standardForm')
    /\ tableaus' = <<tableau'>>
    /\ steps' = << <<"tableau inicial creado", 0>> >>
    /\ iteration' = 0
    /\ prevSolution' = solution
    /\ prevSensitivity' = Unset
    /\ solution' = Unset
    /\ graphical' = Unset
    /\ sensitivity' = Unset
    /\ pc' = "loop"
    /\ UNCHANGED problem

\* the while condition with `iteration <= maxIterations`
LoopCondition_CapOffByOne == ~ tableau.isOptimal /\ iteration <= maxIterations

LoopCondition == ~ tableau.isOptimal /\ iteration < maxIterations

\* the snapshot `tableau` is the last element of `tableaus`: a write to the
\* one is a write to the other
WithLast(seq, x) == [seq EXCEPT ![Len(seq)] = x]

\* one pass of the while loop that pivots
SolvePivot ==
    /\ pc = "loop"
    /\ LoopCondition
    /\ LET pivotCol == findPivotColumn(tableau)
           pivotRow == findPivotRow(tableau, pivotCol)
           marked == [tableau EXCEPT !.pivotRow = pivotRow, !.pivotCol = pivotCol]
       IN  /\ pivotCol # -1
           /\ pivotRow # -1
           /\ iteration' = iteration + 1
           /\ tableau' = pivot(marked, pivotRow, pivotCol, iteration')
           /\ tableaus' = Append(WithLast(tableaus, marked), tableau')
           /\ steps' = steps \o << <<"pivote en", iteration', pivotRow + 1, pivotCol + 1>>,
                                   <<"pivote completado", iteration'>> >>
    /\ UNCHANGED <<problem, pc, standardForm, solution, prevSolution, graphical,
                   sensitivity, prevSensitivity, rerun>>

\* one pass of the while loop that finds no pivot row: solve returns
SolveUnbounded ==
    /\ pc = "loop"
    /\ LoopCondition
    /\ LET pivotCol == findPivotColumn(tableau)
       IN  /\ pivotCol # -1
           /\ findPivotRow(tableau, pivotCol) = -1
    /\ iteration' = iteration + 1
    /\ steps' = Append(steps, <<"no acotada", iteration'>>)
    /\ solution' =
           [isOptimal |-> FALSE, isFeasible |-> TRUE, isUnbounded |-> TRUE,
            optimalValue |-> IF problem.type = "maximize" THEN PosInf ELSE NegInf,
            variables |-> <<>>,
            tableaus |-> tableaus,
            finalTableau |-> tableau,
            steps |-> steps']
    /\ pc' = "solved"
    /\ UNCHANGED <<problem, tableau, tableaus, standardForm, prevSolution,
                   graphical, sensitivity, prevSensitivity, rerun>>

\* the loop ends (its condition fails, or findPivotColumn finds no column and
\* the loop breaks): the rest of solve
SolveFinish ==
    /\ pc = "loop"
    /\ LoopCondition => findPivotColumn(tableau) = -1
    /\ LET broke == LoopCondition
           final == IF broke THEN [tableau EXCEPT !.isOptimal = TRUE] ELSE tableau
           sol == extractSolution(final, standardForm)
       IN  /\ iteration' = IF broke THEN iteration + 1 ELSE iteration
           /\ tableau' = final
           /\ tableaus' = WithLast(tableaus, final)
           /\ steps' = IF iteration' >= maxIterations
                       THEN Append(steps, <<"maximo de iteraciones">>)
                       ELSE steps
           /\ solution' =
                  [isOptimal |-> final.isOptimal, isFeasible |-> TRUE,
                   isUnbounded |-> FALSE,
                   optimalValue |-> sol.objectiveValue,
                   variables |-> sol.variables,
                   tableaus |-> tableaus',
                   finalTableau |-> final,
                   steps |-> steps']
    /\ pc' = "solved"
    /\ UNCHANGED <<problem, standardForm, prevSolution, graphical, sensitivity,
                   prevSensitivity, rerun>>

GraphicalSolve ==
    /\ pc = "solved"
    /\ graphical' = GraphicalSolverSolve(problem)
    /\ pc' = "graphed"
    /\ UNCHANGED <<problem, tableau, tableaus, steps, iteration, standardForm,
                   solution, prevSolution, sensitivity, prevSensitivity, rerun>>

\* handleSolve's call of analyze
Analyze ==
    /\ pc = "graphed"
    /\ \E seed \in 0..(RandomStates - 1) :
           sensitivity' = analyze(solution, problem, seed)
    /\ pc' = "analyzed"
    /\ UNCHANGED <<problem, tableau, tableaus, steps, iteration, standardForm,
                   solution, prevSolution, graphical, prevSensitivity, rerun>>

\* a second call of analyze with the same solution and the same Problem
Reanalyze ==
    /\ pc = "analyzed"
    /\ \E seed \in 0..(RandomStates - 1) :
           sensitivity' = analyze(solution, problem, seed)
    /\ prevSensitivity' = sensitivity
    /\ pc' = "reanalyzed"
    /\ UNCHANGED <<problem, tableau, tableaus, steps, iteration, standardForm,
                   solution, prevSolution, graphical, rerun>>

\* analyze called by another caller with a solution that holds no final
\* tableau
AnalyzeWithoutTableau ==
    /\ pc = "graphed"
    /\ \E seed \in 0..(RandomStates - 1) :
           sensitivity' =
               analyze([solution EXCEPT !.finalTableau = Unset], problem, seed)
    /\ pc' = "analyzedWithoutTableau"
    /\ UNCHANGED <<problem, tableau, tableaus, steps, iteration, standardForm,
                   solution, prevSolution, graphical, prevSensitivity, rerun>>

Next ==
    \/ SolveStart
    \/ SolvePivot
    \/ SolveUnbounded
    \/ SolveFinish
    \/ GraphicalSolve
    \/ Analyze
    \/ Reanalyze
    \/ AnalyzeWithoutTableau

Spec == Init /\ [][Next]_vars

\* solve is one synchronous call: once control is in its loop, the loop runs
\* on until solve returns.  SolveStep is what every step of solve does to pc
\* and iteration (SolvePivot counts a pass, SolveUnbounded and SolveFinish
\* return), and no other action starts in the loop.
SolveStep ==
    /\ pc = "loop"
    /\ pc' \in {"loop", "solved"}
    /\ iteration' \in {iteration, iteration + 1}

FairSpec == Spec /\ WF_<<pc, iteration>>(SolveStep)

(***************************************************************************)
(* findPivotColumn as a function of the tableau.  solve calls it at the    *)
(* top of a pass of its loop; here it is applied to the initial tableau of *)
(* any Problem, whether or not the loop would make a pass, and the column  *)
(* it returns is kept in the tableau's pivotCol.  TinyObjectiveProblem has *)
(* the objective coefficient 1e-11, below the tolerance of checkOptimality.*)
(***************************************************************************)
TinyObjectiveProblem ==
    [type |-> "maximize",
     variables |-> <<"x1">>,
     objective |-> [coefficients |-> << <<1, 10, 1>> >>],
     constraints |->
         << [coefficients |-> <<R(1)>>, operator |-> "<=", rhs |-> R(4),
             expression |-> "x1"] >>]

PivotColumnInit ==
    /\ problem \in Problems \cup OtherProblems \cup {TinyObjectiveProblem}
    /\ pc = "idle"
    /\ tableau = Unset
    /\ tableaus = <<>>
    /\ steps = <<>>
    /\ iteration = 0
    /\ standardForm = Unset
    /\ solution = Unset
    /\ prevSolution = Unset
    /\ graphical = Unset
    /\ sensitivity = Unset
    /\ prevSensitivity = Unset
    /\ rerun = FALSE

\* const pivotCol = this.findPivotColumn(tableau)
FindPivotColumnCall ==
    /\ pc = "loop"
    /\ tableau' = [tableau EXCEPT !.pivotCol = findPivotColumn(tableau)]
    /\ tableaus' = WithLast(tableaus, tableau')
    /\ pc' = "columnFound"
    /\ UNCHANGED <<problem, steps, iteration, standardForm, solution,
                   prevSolution, graphical, sensitivity, prevSensitivity, rerun>>

PivotColumnNext ==
    \/ SolveStart
    \/ FindPivotColumnCall

PivotColumnSpec == PivotColumnInit /\ [][PivotColumnNext]_vars

(***************************************************************************)
(* NLPService.parseLinearProgrammingProblem.  A text is its lines; a line  *)
(* is the keyword that classifies it and the expression it spells, a sum   *)
(* of written terms `sign digits variable` ("", "+" or "-"; "" or a        *)
(* number; a name), with the operator and the right-hand side of a         *)
(* constraint.  An `expression` of the parsed Problem is kept as its       *)
(* written terms.  In ParseSpec the variable `problem` holds the text      *)
(* until Parse has run, as LinearProgrammingApp's `problem` does, and the  *)
(* parsed Problem from then on.                                            *)
(***************************************************************************)
\* the names a text may use, in the order Array.sort() puts them
VariableOrder == <<"x1", "x2">>

\* Number.parseFloat of the digits of a written coefficient
ParseDigits(digits) == R(CHOOSE n \in 1..32 : NumStr(n) = digits)

\* parseExpression: the coefficient of one matched term
TermCoefficient(term) ==
    IF term.digits = ""
    THEN (IF term.sign = "-" THEN RNeg(One) ELSE One)
    ELSE (IF term.sign = "-" THEN RNeg(ParseDigits(term.digits))
          ELSE ParseDigits(term.digits))

\* parseExpression: one term per match, in the order of the text
parseExpression(expression) ==
    [k \in 1..Len(expression) |->
        [coefficient |-> TermCoefficient(expression[k]),
         variable |-> expression[k].variable]]

parseObjectiveFunction(line) ==
    LET terms == parseExpression(line.expression)
    IN  [coefficients |-> [k \in 1..Len(terms) |-> terms[k].coefficient],
         variables |-> [k \in 1..Len(terms) |-> terms[k].variable],
         expression |-> line.expression]

parseConstraint(line) ==
    LET terms == parseExpression(line.expression)
    IN  [coefficients |-> [k \in 1..Len(terms) |-> terms[k].coefficient],
         operator |-> line.operator,
         rhs |-> line.rhs,
         expression |-> line.expression]

\* the names an expression mentions
extractVariablesFromExpression(expression) ==
    {expression[k].variable : k \in 1..Len(expression)}

\* [...new Set(names)].sort()
SortedUnique(names) == SelectSeq(VariableOrder, LAMBDA v : v \in names)

\* the loop over the first k lines: the last objective line read gives type
\* and objective, every constraint line is pushed in order
RECURSIVE ParseLines(_, _)
ParseLines(lines, k) ==
    IF k = 0
    THEN [type |-> "maximize",
          objective |-> [coefficients |-> <<>>, variables |-> <<>>,
                         expression |-> <<>>],
          constraints |-> <<>>]
    ELSE LET acc == ParseLines(lines, k - 1)
             line == lines[k]
         IN  IF line.kind \in {"maximize", "minimize"}
             THEN [acc EXCEPT !.type = line.kind,
                              !.objective = parseObjectiveFunction(line)]
             ELSE IF line.kind = "subject to" THEN acc
             ELSE [acc EXCEPT !.constraints = Append(@, parseConstraint(line))]

parseLinearProgrammingProblem(text) ==
    LET parsed == ParseLines(text, Len(text))
        names ==
            {parsed.objective.variables[k] : k \in 1..Len(parsed.objective.variables)}
            \cup UNION {extractVariablesFromExpression(parsed.constraints[i].expression) :
                           i \in 1..Len(parsed.constraints)}
    IN  [type |-> parsed.type,
         objective |-> parsed.objective,
         constraints |-> parsed.constraints,
         bounds |-> <<>>,
         variables |-> SortedUnique(names)]

\* the written expressions of one or two terms over distinct names
WrittenTerms(signs) ==
    [sign : signs, digits : {"", "2"},
     variable : {VariableOrder[k] : k \in 1..Len(VariableOrder)}]

Expressions ==
    {<<t>> : t \in WrittenTerms({"", "-"})}
    \cup {e \in {<<t, u>> : t \in WrittenTerms({""}), u \in WrittenTerms({"+", "-"})} :
              e[1].variable # e[2].variable}

\* the texts: an objective line, "Sujeto a:" and one constraint line
Texts ==
    {<< [kind |-> t, expression |-> o],
        [kind |-> "subject to"],
        [kind |-> "constraint", expression |-> c, operator |-> op, rhs |-> R(4)] >> :
        t \in {"maximize", "minimize"}, o \in Expressions, c \in Expressions,
        op \in {"<=", ">="}}

ParseInit ==
    /\ problem \in Texts
    /\ pc = "text"
    /\ tableau = Unset
    /\ tableaus = <<>>
    /\ steps = <<>>
    /\ iteration = 0
    /\ standardForm = Unset
    /\ solution = Unset
    /\ prevSolution = Unset
    /\ graphical = Unset
    /\ sensitivity = Unset
    /\ prevSensitivity = Unset
    /\ rerun = FALSE

\* const parsedProblem = nlpService.parseLinearProgrammingProblem(problem)
Parse ==
    /\ pc = "text"
    /\ problem' = parseLinearProgrammingProblem(problem)
    /\ pc' = "parsed"
    /\ UNCHANGED <<tableau, tableaus, steps, iteration, standardForm, solution,
                   prevSolution, graphical, sensitivity, prevSensitivity, rerun>>

\* const simplexSolution = simplexSolver.solve(parsedProblem), up to the loop
ParsedSolveStart ==
    /\ pc = "parsed"
    /\ standardForm' = convertToStandardForm(problem)
    /\ tableau' = initializeTableau(standardForm')
    /\ tableaus' = <<tableau'>>
    /\ steps' = << <<"tableau inicial creado", 0>> >>
    /\ pc' = "parsedLoop"
    /\ UNCHANGED <<problem, iteration, solution, prevSolution, graphical,
                   sensitivity, prevSensitivity, rerun>>

ParseNext ==
    \/ Parse
    \/ ParsedSolveStart

ParseSpec == ParseInit /\ [][ParseNext]_vars

(***************************************************************************)
(* The scenarios of the specification, and what the state holds.           *)
(***************************************************************************)
ScenarioA ==
    [type |-> "maximize", variables |-> <<"x1", "x2">>,
     objective |-> [coefficients |-> <<R(3), R(2)>>],
     constraints |-> << Constraint(1, 1, "<=", 4, "x1 + x2"),
                        Constraint(2, 1, "<=", 6, "2x1 + x2") >>]

ScenarioB ==
    [type |-> "minimize", variables |-> <<"x1", "x2">>,
     objective |-> [coefficients |-> <<R(2), R(3)>>],
     constraints |-> << Constraint(1, 2, ">=", 6, "x1 + 2x2"),
                        Constraint(2, 1, ">=", 8, "2x1 + x2") >>]

ScenarioC ==
    [type |-> "maximize", variables |-> <<"x1", "x2">>,
     objective |-> [coefficients |-> <<R(1), R(1)>>],
     constraints |-> << Constraint(1, -1, "<=", 1, "x1 - x2") >>]

\* solve has returned: `solution` holds its SimplexSolution
Solved == pc \in {"solved", "graphed", "analyzed", "reanalyzed"}
\* GraphicalSolver.solve has returned: `graphical` holds its GraphicalSolution
Graphed == pc \in {"graphed", "analyzed", "reanalyzed"}
\* analyze has returned: `sensitivity` holds its SensitivityAnalysis
Analyzed == pc \in {"analyzed", "reanalyzed"}

\* |x - y| < 1e-9, the tolerance the specification gives for unit columns
Within1e9(x, y) == ~ GeTol(RAbs(RSub(x, y)), Pow10_5, Pow10_5 \div 10)

\* the point (variables[x1], variables[x2]) of a solution of a 2-variable Problem
SolutionPoint(sol, p) ==
    [x |-> sol.variables[p.variables[1]], y |-> sol.variables[p.variables[2]]]

(***************************************************************************)
(* C1.  For Scenario B (minimize 2x1+3x2; x1+2x2>=6; 2x1+x2>=8) solve       *)
(* returns an optimal solution with optimalValue 10 and x1 = 2, x2 = 2.    *)
(* The code starts from the artificial basis without a feasibility phase,  *)
(* finds the initial tableau optimal and returns value 0 at (0, 0).        *)
(***************************************************************************)
C1_ScenarioB ==
    (Solved /\ problem = ScenarioB) =>
        /\ solution.isOptimal
        /\ solution.optimalValue = R(10)
        /\ solution.variables["x1"] = R(2)
        /\ solution.variables["x2"] = R(2)

(***************************************************************************)
(* C2.  For Scenario A (maximize 3x1+2x2; x1+x2<=4; 2x1+x2<=6) solve       *)
(* returns isOptimal = true, optimalValue 10 and x1 = 2, x2 = 2.           *)
(***************************************************************************)
C2_ScenarioA ==
    (Solved /\ problem = ScenarioA) =>
        /\ solution.isOptimal
        /\ solution.optimalValue = R(10)
        /\ solution.variables = [v \in {"x1", "x2"} |-> R(2)]

C2_Witness == Solved /\ problem = ScenarioA /\ Len(solution.tableaus) = 3

(***************************************************************************)
(* C3.  For Scenario A analyze reports a shadow price > 0 for both         *)
(* constraints and reducedCost = 0 for x1 and for x2.                      *)
(***************************************************************************)
C3_ScenarioASensitivity ==
    (Analyzed /\ problem = ScenarioA) =>
        /\ sensitivity.isValid
        /\ Len(sensitivity.shadowPrices) = 2
        /\ \A i \in 1..2 : RLt(Zero, sensitivity.shadowPrices[i].shadowPrice)
        /\ Len(sensitivity.objectiveCoefficients) = 2
        /\ \A j \in 1..2 : sensitivity.objectiveCoefficients[j].reducedCost = Zero
        /\ sensitivity.objectiveCoefficients[1].variable = "x1"
        /\ sensitivity.objectiveCoefficients[2].variable = "x2"

C3_Witness ==
    /\ pc = "analyzed" /\ problem = ScenarioA
    /\ sensitivity.shadowPrices[2].shadowPrice = One

(***************************************************************************)
(* C4.  For Scenario C (maximize x1+x2; x1-x2<=1) solve ends Unbounded:    *)
(* isUnbounded = true and isOptimal = false.                               *)
(***************************************************************************)
C4_ScenarioC ==
    /\ (Solved /\ problem = ScenarioC) =>
           solution.isUnbounded /\ ~ solution.isOptimal
    /\ (pc = "loop" /\ problem = ScenarioC) => Len(tableaus) <= 2

C4_Witness ==
    /\ Solved /\ problem = ScenarioC
    /\ solution.optimalValue = PosInf /\ Len(solution.tableaus) = 2

(***************************************************************************)
(* C5.  Whenever solve reports an optimal solution of a 2-variable Problem *)
(* and GraphicalSolver.solve returns an optimal point, the two optimal     *)
(* values agree within 1e-6.                                               *)
(***************************************************************************)
C5_ValuesAgree ==
    (Graphed /\ Len(problem.variables) = 2 /\ solution.isOptimal
        /\ graphical.optimalPoint # NoPoint) =>
        AbsLt1e6(RSub(solution.optimalValue, graphical.optimalValue))

(***************************************************************************)
(* C6.  Whenever solve reports isOptimal = true for a 2-variable Problem,  *)
(* the returned point satisfies every constraint line and both             *)
(* non-negativity bounds under isPointFeasible.                            *)
(***************************************************************************)
C6_PointFeasible ==
    (Solved /\ Len(problem.variables) = 2 /\ solution.isOptimal) =>
        isPointFeasible(SolutionPoint(solution, problem),
                        convertConstraintsToLines(problem.constraints))

(***************************************************************************)
(* C7.  Two runs of analyze on the same optimal solution and the same      *)
(* Problem return identical allowableIncrease and allowableDecrease for    *)
(* every shadow price, objective coefficient and RHS range, and the same   *)
(* stability verdict and summary.                                          *)
(***************************************************************************)
RangesOf(entries) ==
    [k \in 1..Len(entries) |->
        <<entries[k].allowableIncrease, entries[k].allowableDecrease>>]

C7_AnalyzeDeterministic ==
    (pc = "reanalyzed" /\ solution.isOptimal) =>
        /\ RangesOf(sensitivity.shadowPrices)
               = RangesOf(prevSensitivity.shadowPrices)
        /\ RangesOf(sensitivity.objectiveCoefficients)
               = RangesOf(prevSensitivity.objectiveCoefficients)
        /\ RangesOf(sensitivity.rhsRanges) = RangesOf(prevSensitivity.rhsRanges)
        /\ sensitivity.optimalBasisStability
               = prevSensitivity.optimalBasisStability
        /\ sensitivity.summary = prevSensitivity.summary

C9_ScenarioARanging ==
    (Analyzed /\ problem = ScenarioA) =>
        /\ RLt(Zero, sensitivity.shadowPrices[2].shadowPrice)
        /\ RLt(Zero, sensitivity.rhsRanges[2].shadowPrice)
        /\ sensitivity.rhsRanges[2].constraint = "2x1 + x2"
        /\ \/ IsFinite(sensitivity.rhsRanges[2].allowableIncrease)
           \/ IsFinite(sensitivity.rhsRanges[2].allowableDecrease)

C9_Witness ==
    /\ pc = "reanalyzed" /\ problem = ScenarioA
    /\ sensitivity.rhsRanges[2].allowableIncrease
           # prevSensitivity.rhsRanges[2].allowableIncrease

(***************************************************************************)
(* C10.  After every pivot on (row, column) the pivot column of the new    *)
(* tableau is a unit vector: 1 at the pivot row and 0 at every other row,  *)
(* the objective row included, within 1e-9.  The pivot of snapshot k is    *)
(* recorded in its pivotRow and pivotCol; snapshot k + 1 is its result.    *)
(***************************************************************************)
C10_PivotColumnUnit ==
    \A k \in 1..(Len(tableaus) - 1) :
        LET row == tableaus[k].pivotRow
            column == tableaus[k].pivotCol
            new == tableaus[k + 1].table
        IN  /\ row # NoPivot /\ column # NoPivot
            /\ \A i \in 1..Len(new) :
                   Within1e9(new[i][column + 1], IF i = row + 1 THEN One ELSE Zero)

C10_Witness ==
    /\ pc = "loop" /\ Len(tableaus) = 3
    /\ tableaus[2].table[Len(tableaus[2].table)][tableaus[1].pivotCol + 1] = Zero
    /\ tableaus[1].table[Len(tableaus[1].table)][tableaus[1].pivotCol + 1] # Zero

(***************************************************************************)
(* C11.  Whenever solve returns isOptimal = true, every entry of the final *)
(* tableau's objective row except the RHS entry is >= -1e-9.               *)
(***************************************************************************)
\* x >= -1e-9
GeNeg1e9(x) == ~ GtTol(RNeg(x), Pow10_5, Pow10_5 \div 10)

C11_OptimalRowNonNegative ==
    (Solved /\ solution.isOptimal) =>
        LET final == solution.finalTableau
            row == final.table[Len(final.table)]
        IN  /\ final = solution.tableaus[Len(solution.tableaus)]
            /\ final.objectiveRow = row
            /\ \A j \in 1..(Len(row) - 1) : GeNeg1e9(row[j])

\* an optimum reached by pivoting away a negative objective-row entry
C11_Witness ==
    /\ Solved /\ solution.isOptimal /\ Len(solution.tableaus) >= 2
    /\ \E j \in 1..Len(problem.variables) :
           LET first == solution.tableaus[1].table
           IN  RLt(first[Len(first)][j], Zero)

(***************************************************************************)
(* C12.  solve terminates after at most 100 pivots in exactly one terminal *)
(* outcome: Optimal (isOptimal), Unbounded (isUnbounded) or IterationLimit *)
(* (both false, after the 100th pivot); isOptimal and isUnbounded are      *)
(* never both true; tableaus holds at most 101 snapshots and its index 0   *)
(* is the initial tableau.  Every snapshot after the first is the result   *)
(* of one pivot.                                                           *)
(***************************************************************************)
\* a snapshot without the pivot position solve marks on it
Unmarked(tb) == [tb EXCEPT !.pivotRow = NoPivot, !.pivotCol = NoPivot]

C12_Bounded(snapshots) ==
    /\ Len(snapshots) <= maxIterations + 1
    /\ Len(snapshots) >= 1
    /\ Unmarked(snapshots[1]) = initializeTableau(convertToStandardForm(problem))

C12_Outcome ==
    /\ ~ (solution.isOptimal /\ solution.isUnbounded)
    /\ C12_Bounded(solution.tableaus)
    /\ (~ solution.isOptimal /\ ~ solution.isUnbounded) =>
           Len(solution.tableaus) = maxIterations + 1

C12_SolveTerminates ==
    /\ [](pc = "loop" => (C12_Bounded(tableaus) /\ Len(tableaus) = iteration + 1))
    /\ [](Solved => C12_Outcome)
    /\ (pc = "loop") ~> (pc = "solved")

\* the iteration limit is reached: 100 pivots, neither optimal nor unbounded
C12_Witness ==
    /\ Solved /\ ~ solution.isOptimal /\ ~ solution.isUnbounded
    /\ Len(solution.tableaus) = maxIterations + 1
    /\ solution.tableaus[maxIterations].pivotRow # NoPivot

(***************************************************************************)
(* C13.  Once a snapshot has been appended to tableaus, no later step of   *)
(* solve changes any of its fields; every pivot produces a new snapshot.   *)
(* The code writes pivotRow and pivotCol into the last appended snapshot   *)
(* before it pivots (`tableau` is that very object).                       *)
(***************************************************************************)
C13_SnapshotsNeverMutated ==
    [][pc = "loop" =>
          /\ Len(tableaus') >= Len(tableaus)
          /\ \A k \in 1..Len(tableaus) : tableaus'[k] = tableaus[k]]_vars

(***************************************************************************)
(* C14.  Whenever the solution passed to analyze is not optimal            *)
(* (unbounded or iteration limit) or has no final tableau, analyze returns *)
(* isValid = false with empty shadowPrices, objectiveCoefficients and      *)
(* rhsRanges and exactly one explanatory message, and no computed number:  *)
(* no critical range and a total slack of 0.                               *)
(***************************************************************************)
C14_InvalidAnalysis ==
    ((Analyzed /\ ~ solution.isOptimal) \/ pc = "analyzedWithoutTableau") =>
        /\ ~ sensitivity.isValid
        /\ sensitivity.shadowPrices = <<>>
        /\ sensitivity.objectiveCoefficients = <<>>
        /\ sensitivity.rhsRanges = <<>>
        /\ Len(sensitivity.recommendations) = 1
        /\ ~ sensitivity.optimalBasisStability.isStable
        /\ sensitivity.optimalBasisStability.criticalRanges = <<>>
        /\ sensitivity.summary.totalSlack = Zero

\* analyze has refused a solution that ran into the iteration limit
C14_Witness ==
    /\ pc = "analyzed" /\ ~ solution.isOptimal /\ ~ solution.isUnbounded
    /\ Len(solution.tableaus) = maxIterations + 1
    /\ ~ sensitivity.isValid

(***************************************************************************)
(* C15.  Whenever problem.variables.length is not 2, GraphicalSolver.solve *)
(* returns isValid = false with a non-empty errorMessage, optimalPoint =   *)
(* null and empty cornerPoints, feasibleRegion and constraintLines.        *)
(***************************************************************************)
C15_NotTwoVariables ==
    (Graphed /\ Len(problem.variables) # 2) =>
        /\ ~ graphical.isValid
        /\ graphical.errorMessage # <<>>
        /\ graphical.optimalPoint = NoPoint
        /\ graphical.cornerPoints = <<>>
        /\ graphical.feasibleRegion = <<>>
        /\ graphical.constraintLines = <<>>

\* the graphical method was asked about the four-variable Problem
C15_Witness ==
    /\ pc = "graphed" /\ Len(problem.variables) = 4
    /\ graphical.errorMessage[2] = 4

(***************************************************************************)
(* C16.  In every snapshot produced by solve (the initial one and the one  *)
(* after each pivot), for every constraint row r the column of the         *)
(* variable named basicVariables[r] is a unit vector: 1 in row r and 0 in  *)
(* every other row, the objective row included.  A name may label several  *)
(* columns (slack and surplus variables share the prefix "s"): any column  *)
(* that carries the name is accepted.                                      *)
(***************************************************************************)
\* column `col` (0-based) of `table` is the unit vector of row r (1-based)
UnitColumn(table, col, r) ==
    \A i \in 1..Len(table) :
        Within1e9(table[i][col + 1], IF i = r THEN One ELSE Zero)

\* the columns (0-based) that carry the name
ColumnsNamed(sf, name) ==
    {c \in 0..(Len(allVariables(sf)) - 1) : allVariables(sf)[c + 1] = name}

BasicColumnsUnit(tb, sf) ==
    \A r \in 1..(Len(tb.table) - 1) :
        /\ r <= Len(tb.basicVariables)
        /\ \E c \in ColumnsNamed(sf, tb.basicVariables[r]) :
               UnitColumn(tb.table, c, r)

C16_BasicColumnsUnit ==
    (pc = "loop" \/ Solved) =>
        \A k \in 1..Len(tableaus) : BasicColumnsUnit(tableaus[k], standardForm)

(***************************************************************************)
(* C17.  For every pivot on (row, column) the new snapshot's               *)
(* basicVariables[row] is the name of the variable that owns tableau       *)
(* column `column` (a decision variable for column < variables.length,     *)
(* otherwise the slack, surplus or artificial variable of that column),    *)
(* and all other basicVariables entries are unchanged.  The pivot of       *)
(* snapshot k is recorded in its pivotRow and pivotCol; snapshot k + 1 is  *)
(* its result.                                                             *)
(***************************************************************************)
C17_EnteringVariable ==
    (pc = "loop" \/ Solved) =>
        \A k \in 1..(Len(tableaus) - 1) :
            LET row == tableaus[k].pivotRow
                column == tableaus[k].pivotCol
                old == tableaus[k].basicVariables
                new == tableaus[k + 1].basicVariables
            IN  /\ Len(new) = Len(old)
                /\ new[row + 1] = allVariables(standardForm)[column + 1]
                /\ \A r \in 1..Len(old) : r # row + 1 => new[r] = old[r]

(***************************************************************************)
(* C18.  For every optimal solution and every constraint i (with any mix   *)
(* of <=, >= and = constraints) the shadowPrice reported for constraint i  *)
(* equals the absolute value of the final objective-row entry at the       *)
(* tableau column of constraint i's own slack or surplus variable.  An     *)
(* equality has neither and is left out.                                   *)
(***************************************************************************)
C18_ShadowPriceColumn ==
    (Analyzed /\ solution.isOptimal) =>
        /\ Len(sensitivity.shadowPrices) = Len(problem.constraints)
        /\ \A i \in 1..Len(problem.constraints) :
               LET column == SlackOrSurplusColumn(standardForm, i)
                   row == solution.finalTableau.table[
                              Len(solution.finalTableau.table)]
               IN  column # -1 =>
                       sensitivity.shadowPrices[i].shadowPrice
                           = RAbs(row[column + 1])

(***************************************************************************)
(* C19.  For every optimal solution and every decision variable j the      *)
(* reported reducedCost is 0 if j is basic in the final tableau, and       *)
(* otherwise equals the final objective-row entry at column j.  Basic is   *)
(* read both ways: j is named in basicVariables, or column j is the unit   *)
(* column of a constraint row.                                             *)
(***************************************************************************)
\* column j (0-based) is the unit column of some constraint row
ColumnIsBasic(tb, j) ==
    \E r \in 1..(Len(tb.table) - 1) : UnitColumn(tb.table, j, r)

RECURSIVE RatioBound(_, _, _, _)
RatioBound(table, col, sign, k) ==
    IF k = 0 THEN PosInf
    ELSE LET rest == RatioBound(table, col, sign, k - 1)
             entry == table[k][col + 1]
             basicValue == table[k][Len(table[k])]
             ratio == RMul(R(sign), RDiv(basicValue, entry))
         IN  IF RLt(Zero, RMul(R(sign), entry)) THEN RMin(rest, ratio) ELSE rest

C20_RHSRatioTest ==
    (Analyzed /\ solution.isOptimal) =>
        \A i \in 1..Len(problem.constraints) :
            LET table == solution.finalTableau.table
                col == SlackOrArtificialColumn(standardForm, i)
            IN  /\ sensitivity.rhsRanges[i].allowableIncrease
                       = RatioBound(table, col, -1, Len(table) - 1)
                /\ sensitivity.rhsRanges[i].allowableDecrease
                       = RatioBound(table, col, 1, Len(table) - 1)

(***************************************************************************)
(* C21.  For every optimal solution and every non-basic decision variable  *)
(* with nonzero reduced cost, the reported objective-coefficient range is  *)
(* one-sided: exactly one of allowableIncrease and allowableDecrease is    *)
(* finite and the other is infinite.  The code reports both sides as       *)
(* infinite.                                                               *)
(***************************************************************************)
C21_OneSidedRange ==
    (Analyzed /\ solution.isOptimal) =>
        \A n \in 1..Len(problem.variables) :
            LET entry == sensitivity.objectiveCoefficients[n]
            IN  (/\ ~ Includes(solution.finalTableau.basicVariables,
                               problem.variables[n])
                 /\ entry.reducedCost # Zero) =>
                    IsFinite(entry.allowableIncrease)
                        # IsFinite(entry.allowableDecrease)

(***************************************************************************)
(* C22.  Whenever analyze returns a valid result in which any reported     *)
(* ranging bound (allowableIncrease or allowableDecrease of any shadow     *)
(* price, objective coefficient or RHS range) is less than 1,              *)
(* optimalBasisStability.isStable is false; isStable is true only when     *)
(* every reported ranging bound is at least 1.  The code leaves the        *)
(* bounds of the shadow prices out, and reports allowableDecrease 0 for    *)
(* every shadow price that is 0.                                           *)
(***************************************************************************)
\* some entry of a list of ranges has a bound below 1
SomeBoundBelowOne(ranges) ==
    \E k \in 1..Len(ranges) :
        RLt(ranges[k].allowableIncrease, One) \/ RLt(ranges[k].allowableDecrease, One)

C22_StableOnlyIfAllBoundsWide ==
    (Analyzed /\ sensitivity.isValid) =>
        sensitivity.optimalBasisStability.isStable
            = ~ (\/ SomeBoundBelowOne(sensitivity.shadowPrices)
                 \/ SomeBoundBelowOne(sensitivity.objectiveCoefficients)
                 \/ SomeBoundBelowOne(sensitivity.rhsRanges))

(***************************************************************************)
(* C23.  For every 2-variable problem in which at least one pairwise       *)
(* intersection of the constraint and non-negativity lines is feasible,    *)
(* GraphicalSolver.solve returns as optimalPoint the feasible corner with  *)
(* the largest (maximize) or smallest (minimize) objective value among     *)
(* all feasible corners, ties going to the first corner found, and         *)
(* optimalValue is the objective at that point.  The code first looks for  *)
(* a feasible point on a grid of step 0.5 over [0, 20] x [0, 20] and       *)
(* reports the problem infeasible, with no optimal point, when the grid    *)
(* holds none.                                                             *)
(***************************************************************************)
\* the pairs i < j (1-based) of lines that cross in a feasible point
FeasiblePairs(lines) ==
    {q \in (1..Len(lines)) \X (1..Len(lines)) :
        /\ q[1] < q[2]
        /\ findLineIntersection(lines[q[1]], lines[q[2]]) # NoPoint
        /\ isPointFeasible(findLineIntersection(lines[q[1]], lines[q[2]]), lines)}

\* pair q is visited before pair r by the loops over i and j > i
FoundBefore(q, r) == q[1] < r[1] \/ (q[1] = r[1] /\ q[2] < r[2])

C23_GraphicalOptimalCorner ==
    (Graphed /\ Len(problem.variables) = 2) =>
        LET lines == convertConstraintsToLines(problem.constraints)
            pairs == FeasiblePairs(lines)
            Corner(q) == findLineIntersection(lines[q[1]], lines[q[2]])
            Value(q) == evaluateObjective(Corner(q), problem.objective)
            Beats(v, w) == IF problem.type = "maximize" THEN RLt(w, v) ELSE RLt(v, w)
        IN  pairs # {} =>
                \E best \in pairs :
                    /\ \A q \in pairs :
                           /\ ~ Beats(Value(q), Value(best))
                           /\ Value(q) = Value(best) => ~ FoundBefore(q, best)
                    /\ graphical.optimalPoint = Corner(best)
                    /\ graphical.optimalValue = Value(best)

(***************************************************************************)
(* C24.  In every standard form produced by convertToStandardForm, each    *)
(* <= constraint gets exactly one slack, each >= exactly one surplus and   *)
(* one artificial, each = exactly one artificial, numbered by per-kind     *)
(* counters from 1 in constraint order, and no identifier is reused: all   *)
(* slack, surplus and artificial variable names of one standard form are   *)
(* pairwise distinct.  The code names slack and surplus variables with     *)
(* the same prefix "s" from two counters, so the first slack and the       *)
(* first surplus are both "s1".                                            *)
(***************************************************************************)
\* the added variables of a standard form: <<constraint, kind, name>>
AddedVariables(sf) ==
    {<<i, "slack", sf.constraints[i].slackVar>> :
        i \in {m \in 1..Len(sf.constraints) : sf.constraints[m].slackVar # Null}}
    \cup {<<i, "surplus", sf.constraints[i].surplusVar>> :
        i \in {m \in 1..Len(sf.constraints) : sf.constraints[m].surplusVar # Null}}
    \cup {<<i, "artificial", sf.constraints[i].artificialVar>> :
        i \in {m \in 1..Len(sf.constraints) : sf.constraints[m].artificialVar # Null}}

\* the kinds of variables the standard constraint sc holds
KindsOf(sc) ==
    {kind \in {"slack", "surplus", "artificial"} :
        \/ kind = "slack" /\ sc.slackVar # Null
        \/ kind = "surplus" /\ sc.surplusVar # Null
        \/ kind = "artificial" /\ sc.artificialVar # Null}

\* the kinds of variables the operator calls for
KindsFor(operator) ==
    IF operator = "<=" THEN {"slack"}
    ELSE IF operator = ">=" THEN {"surplus", "artificial"}
    ELSE {"artificial"}

\* the numbers 1, 2, ... of the names of one kind follow the constraint order
NumberedInOrder(sf, kind, prefix) ==
    \A v \in AddedVariables(sf) :
        v[2] = kind =>
            v[3] = prefix \o NumStr(Cardinality({w \in AddedVariables(sf) :
                                                    w[2] = kind /\ w[1] <= v[1]}))

C24_StandardFormNames ==
    (pc # "idle") =>
        /\ Len(standardForm.constraints) = Len(problem.constraints)
        /\ \A i \in 1..Len(problem.constraints) :
               KindsOf(standardForm.constraints[i])
                   = KindsFor(problem.constraints[i].operator)
        /\ NumberedInOrder(standardForm, "slack", "s")
        /\ NumberedInOrder(standardForm, "surplus", "s")
        /\ NumberedInOrder(standardForm, "artificial", "a")
        /\ \A v, w \in AddedVariables(standardForm) : v # w => v[3] # w[3]

(***************************************************************************)
(* C25.  findPivotRow(tableau, column) returns the constraint row with     *)
(* strictly positive entry in `column` that minimizes rhs/entry, choosing  *)
(* the lowest row index among ties, and returns none (-1) exactly when no  *)
(* constraint row has a strictly positive entry in that column, in which   *)
(* case solve reports Unbounded.  Checked on every pass of the loop of     *)
(* solve that reaches findPivotRow: the pass either marks the minimum-     *)
(* ratio row on the snapshot it pivots, or returns the unbounded result.   *)
(***************************************************************************)
\* the constraint rows (0-based) with a strictly positive entry in column col
PositiveRows(table, col) ==
    {i \in 0..(Len(table) - 2) : RLt(Zero, table[i + 1][col + 1])}

\* rhs / entry of row i (0-based) in column col
RatioOf(table, col, i) == RDiv(table[i + 1][Len(table[i + 1])], table[i + 1][col + 1])

\* the lowest row among those of minimum ratio, -1 when no row is positive
MinRatioRow(table, col) ==
    IF PositiveRows(table, col) = {} THEN -1
    ELSE CHOOSE i \in PositiveRows(table, col) :
             \A m \in PositiveRows(table, col) :
                 \/ RLt(RatioOf(table, col, i), RatioOf(table, col, m))
                 \/ RatioOf(table, col, i) = RatioOf(table, col, m) /\ i <= m

C25_PivotRowStep ==
    (pc = "loop" /\ LoopCondition /\ findPivotColumn(tableau) # -1) =>
        LET col == findPivotColumn(tableau)
            row == MinRatioRow(tableau.table, col)
        IN  IF row = -1
            THEN /\ pc' = "solved"
                 /\ solution'.isUnbounded
                 /\ ~ solution'.isOptimal
            ELSE /\ pc' = "loop"
                 /\ Len(tableaus') = Len(tableaus) + 1
                 /\ tableaus'[Len(tableaus)].pivotRow = row
                 /\ tableaus'[Len(tableaus)].pivotCol = col
                 /\ tableau'.explanation = <<"pivote", row + 1, col + 1>>

C25_FindPivotRow == [][C25_PivotRowStep]_vars

\* a pivoted snapshot in whose pivot column two rows tie for the minimum ratio
\* and the lower one was taken
C25_Witness ==
    \E k \in 1..(Len(tableaus) - 1) :
        LET table == tableaus[k].table
            col == tableaus[k].pivotCol
            row == tableaus[k].pivotRow
        IN  /\ row # NoPivot
            /\ row = MinRatioRow(table, col)
            /\ \E m \in PositiveRows(table, col) :
                   m > row /\ RatioOf(table, col, m) = RatioOf(table, col, row)

CoefficientIn(expression, v) ==
    IF \E k \in 1..Len(expression) : expression[k].variable = v
    THEN TermCoefficient(expression[CHOOSE k \in 1..Len(expression) :
                                        expression[k].variable = v])
    ELSE Zero

\* the vector lists, position by position, the coefficients of `variables`
AlignedWith(coefficients, expression, variables) ==
    /\ Len(coefficients) = Len(variables)
    /\ \A j \in 1..Len(variables) :
           coefficients[j] = CoefficientIn(expression, variables[j])

C27_CoefficientPositions ==
    /\ (pc \in {"parsed", "parsedLoop"}) =>
           /\ AlignedWith(problem.objective.coefficients,
                          problem.objective.expression, problem.variables)
           /\ \A i \in 1..Len(problem.constraints) :
                  AlignedWith(problem.constraints[i].coefficients,
                              problem.constraints[i].expression, problem.variables)
    /\ (pc = "parsedLoop") =>
           \A i \in 1..Len(problem.constraints) :
               \A j \in 1..Len(problem.variables) :
                   tableau.table[i][j]
                       = CoefficientIn(problem.constraints[i].expression,
                                       problem.variables[j])

(***************************************************************************)
(* C28.  Whenever SimplexSolver.solve returns isOptimal = true,            *)
(* optimalValue equals the original objective evaluated at the returned    *)
(* variables map (sum over decision variables of objective coefficient     *)
(* times reported value), and every reported variable value is >= 0.       *)
(***************************************************************************)
\* the sum over the first k decision variables of coefficient times value
RECURSIVE ObjectiveAt(_, _, _)
ObjectiveAt(p, values, k) ==
    IF k = 0 THEN Zero
    ELSE RAdd(ObjectiveAt(p, values, k - 1),
              RMul(CoefOrZero(p.objective.coefficients, k - 1),
                   values[p.variables[k]]))

C28_ValueAtVariables ==
    (Solved /\ solution.isOptimal) =>
        /\ DOMAIN solution.variables
               = {problem.variables[k] : k \in 1..Len(problem.variables)}
        /\ \A v \in DOMAIN solution.variables : RLe(Zero, solution.variables[v])
        /\ solution.optimalValue
               = ObjectiveAt(problem, solution.variables, Len(problem.variables))

(***************************************************************************)
(* SimplexSolver.solve on its own, on Problems that end it in each of its  *)
(* ways.  HundredPivotProblem is made of four independent blocks of 6, 5,  *)
(* 2 and 2 variables, block of d variables                                 *)
(*     maximize  sum_p 2^(d-p) x_p                                         *)
(*     subject to  sum_(q<p) 2^(p-q+1) x_q + x_p <= 5^p   (p = 1..d),      *)
(* on which the rule of findPivotColumn visits 2^d - 1 bases: solve makes  *)
(* 63 + 31 + 3 + 3 = 100 pivots, the last of which gives the optimum.      *)
(***************************************************************************)
CubeDimensions == <<6, 5, 2, 2>>

RECURSIVE Pow(_, _)
Pow(b, e) == IF e = 0 THEN 1 ELSE b * Pow(b, e - 1)

\* the number of variables of the blocks before block k
RECURSIVE CubeOffset(_)
CubeOffset(k) == IF k = 1 THEN 0 ELSE CubeOffset(k - 1) + CubeDimensions[k - 1]

CubeVariables == 1..CubeOffset(Len(CubeDimensions) + 1)

\* the block of variable v, and its place p in the block
CubeOf(v) ==
    CHOOSE k \in 1..Len(CubeDimensions) :
        CubeOffset(k) < v /\ v <= CubeOffset(k) + CubeDimensions[k]
PlaceOf(v) == v - CubeOffset(CubeOf(v))

HundredPivotProblem ==
    [type |-> "maximize",
     variables |-> [v \in CubeVariables |-> "x" \o NumStr(v)],
     objective |->
         [coefficients |->
             [v \in CubeVariables |->
                 R(Pow(2, CubeDimensions[CubeOf(v)] - PlaceOf(v)))]],
     constraints |->
         [i \in CubeVariables |->
             [coefficients |->
                 [v \in CubeVariables |->
                     IF CubeOf(v) # CubeOf(i) \/ PlaceOf(v) > PlaceOf(i) THEN Zero
                     ELSE IF v = i THEN One
                     ELSE R(Pow(2, PlaceOf(i) - PlaceOf(v) + 1))],
              operator |-> "<=",
              rhs |-> R(Pow(5, PlaceOf(i))),
              expression |-> ""]]]

SolveInit ==
    /\ problem \in {ScenarioA, ScenarioC, DegenerateProblem, HundredPivotProblem}
    /\ pc = "idle"
    /\ tableau = Unset
    /\ tableaus = <<>>
    /\ steps = <<>>
    /\ iteration = 0
    /\ standardForm = Unset
    /\ solution = Unset
    /\ prevSolution = Unset
    /\ graphical = Unset
    /\ sensitivity = Unset
    /\ prevSensitivity = Unset
    /\ rerun = FALSE

SolveNext ==
    \/ SolveStart
    \/ SolvePivot
    \/ SolveUnbounded
    \/ SolveFinish

SolveSpec == SolveInit /\ [][SolveNext]_vars

(***************************************************************************)
(* C29.  SimplexSolver.solve appends the step 'Maximo numero de            *)
(* iteraciones alcanzado' (iteration limit reached) only when it ends in   *)
(* the IterationLimit outcome, i.e. never in a result whose isOptimal is   *)
(* true, including the case where the 100th pivot produces an optimal      *)
(* tableau.  The code appends the step whenever the pass counter has       *)
(* reached 100, whatever the last tableau is.                              *)
(***************************************************************************)
C29_IterationLimitStep ==
    (Solved /\ Includes(solution.steps, <<"maximo de iteraciones">>)) =>
        /\ ~ solution.isOptimal
        /\ ~ solution.isUnbounded


(***************************************************************************)
(* InterpretationService.generateMethodComparison.  The graphicalSolution  *)
(* it is handed is the object GraphicalSolver.solve returned; a property   *)
(* the object does not have reads as undefined, which is falsy.            *)
(***************************************************************************)
\* value.toFixed(4): the nearest multiple of 1/10000
toFixed4(x) ==
    LET scaled == Abs(x[1]) * 10000
        rounded == (2 * scaled + x[2]) \div (2 * x[2])
    IN  Norm(IF x[1] < 0 THEN -rounded ELSE rounded, 10000)

\* object.isOptimal in a condition
IsOptimalOf(object) == "isOptimal" \in DOMAIN object /\ object.isOptimal

generateMethodComparison(simplexSolution, graphicalSolution) ==
    IF ~ graphicalSolution.isValid
    THEN <<"el metodo grafico no es aplicable">>
    ELSE IF IsOptimalOf(simplexSolution) /\ IsOptimalOf(graphicalSolution)
    THEN LET simplexValue == toFixed4(simplexSolution.optimalValue)
             graphicalValue == toFixed4(graphicalSolution.optimalValue)
         IN  IF AbsLt1e6(RSub(simplexSolution.optimalValue,
                              graphicalSolution.optimalValue))
             THEN <<"ambos metodos convergen", simplexValue>>
             ELSE <<"discrepancia entre los metodos", simplexValue, graphicalValue>>
    ELSE <<"los metodos son complementarios">>

(***************************************************************************)
(* C30.  For a Problem of two variables on which the simplex solution is   *)
(* optimal and GraphicalSolver.solve returned an optimal point,            *)
(* generateMethodComparison returns the agreement message when the two     *)
(* optimal values differ by less than 1e-6 and the discrepancy message     *)
(* otherwise, never the message that the methods are complementary.  The   *)
(* code asks the GraphicalSolution for isOptimal, a property it does not   *)
(* have, and returns the complementary message.                            *)
(***************************************************************************)
C30_MethodComparison ==
    (/\ pc = "analyzed"
     /\ Len(problem.variables) = 2
     /\ solution.isOptimal
     /\ graphical.isValid /\ graphical.isFeasible /\ ~ graphical.isUnbounded
     /\ graphical.optimalPoint # NoPoint) =>
        generateMethodComparison(solution, graphical)[1] =
            IF AbsLt1e6(RSub(solution.optimalValue, graphical.optimalValue))
            THEN "ambos metodos convergen"
            ELSE "discrepancia entre los metodos"

====
